---- MODULE Spec2Model ----
(***************************************************************************)
(* Gromov-Wasserstein solver of ot/gromov.py as a state machine.           *)
(*                                                                         *)
(* Numbers are exact rationals <<n, d>> (d > 0, lowest terms).  An array   *)
(* is a record [nd, r, c, st, d]: nd is numpy's ndim (0, 1 or 2), r x c    *)
(* its shape (a 0-d array is 1 x 1, a 1-d array of length n is 1 x n), d   *)
(* its entries in row-major order and st one of                            *)
(*   "num"     the entries are the rationals in d,                         *)
(*   "opaque"  the shape is known, the entries are reals that are not      *)
(*             represented (log, exp, nan, inf),                           *)
(*   any other string: the name of the exception the expression raised.    *)
(* Norms are carried squared (err holds ||.||^2, stopThr its square is     *)
(* compared), so that every comparison the code makes is decided exactly.  *)
(***************************************************************************)
EXTENDS Integers, Sequences, FiniteSets, TLC

\* ------------------------------------------------------------ bounds
MaxN == 2          \* largest number of points of a space
MaxIter == 12      \* largest numItermax of a gromov_wasserstein call
MaxBaryIter == 2   \* largest numItermax of a gromov_barycenters call
MaxS == 2          \* largest number of spaces of a barycenter

\* ------------------------------------------------------------ rationals
Abs(x) == IF x < 0 THEN -x ELSE x

RECURSIVE Gcd(_, _)
Gcd(a, b) == IF b = 0 THEN a ELSE Gcd(b, a % b)

Rat(n, d) == LET g == Gcd(Abs(n), d) IN <<n \div g, d \div g>>

Zero == <<0, 1>>
One == <<1, 1>>

\* sums over the least common denominator, products after cross-cancelling
RAdd(a, b) ==
    LET g == Gcd(a[2], b[2])
    IN Rat(a[1] * (b[2] \div g) + b[1] * (a[2] \div g), (a[2] \div g) * b[2])
RMul(a, b) ==
    LET g == Gcd(Abs(a[1]), b[2])
        h == Gcd(Abs(b[1]), a[2])
    IN <<(a[1] \div g) * (b[1] \div h), (a[2] \div h) * (b[2] \div g)>>
RNeg(a) == <<-a[1], a[2]>>
RSub(a, b) == RAdd(a, RNeg(b))
RLeq(a, b) == a[1] * b[2] <= b[1] * a[2]
RLess(a, b) == a[1] * b[2] < b[1] * a[2]
\* a / b for b # 0
RDiv(a, b) ==
    IF b[1] > 0 THEN RMul(a, <<b[2], b[1]>>) ELSE RMul(a, <<-b[2], -b[1]>>)

RECURSIVE RSum(_)
RSum(s) == IF s = <<>> THEN Zero ELSE RAdd(Head(s), RSum(Tail(s)))

RMin(s) ==
    CHOOSE x \in {s[k] : k \in 1..Len(s)} : \A k \in 1..Len(s) : RLeq(x, s[k])

RMax(s) ==
    LET S == {s[k] : k \in 1..Len(s)}
    IN CHOOSE x \in S : \A y \in S : RLeq(y, x)

\* the sequence s with every entry evaluated
Eager(s) == SubSeq(s, 1, Len(s))

\* ------------------------------------------------------------ arrays
Scalar(x) == [nd |-> 0, r |-> 1, c |-> 1, st |-> "num", d |-> <<x>>]
Vec(s) == [nd |-> 1, r |-> 1, c |-> Len(s), st |-> "num", d |-> Eager(s)]
Mat(r, c, s) == [nd |-> 2, r |-> r, c |-> c, st |-> "num", d |-> Eager(s)]
Opaque(nd, r, c) == [nd |-> nd, r |-> r, c |-> c, st |-> "opaque", d |-> <<>>]
Raised(e) == [nd |-> 0, r |-> 0, c |-> 0, st |-> e, d |-> <<>>]

IsErr(A) == A.st \notin {"num", "opaque"}
At(A, i, j) == A.d[(i - 1) * A.c + j]

\* A.T : a 0-d or 1-d array is its own transpose
Transpose(A) ==
    IF A.nd < 2 \/ IsErr(A) THEN A
    ELSE IF A.st = "opaque" THEN Opaque(2, A.c, A.r)
    ELSE Mat(A.c, A.r,
             [k \in 1..(A.r * A.c) |->
                 At(A, ((k - 1) % A.r) + 1, ((k - 1) \div A.r) + 1)])

\* the scalar operation named op
Apply(op, x, y) ==
    IF op = "sub" THEN RSub(x, y)
    ELSE IF op = "mul" THEN RMul(x, y)
    ELSE RDiv(x, y)

\* an elementwise binary operation under numpy's broadcasting rule
Broadcast(op, A, B) ==
    IF IsErr(A) THEN A
    ELSE IF IsErr(B) THEN B
    ELSE IF ~ ( /\ (A.r = B.r \/ A.r = 1 \/ B.r = 1)
                /\ (A.c = B.c \/ A.c = 1 \/ B.c = 1) )
    THEN Raised("ValueError")
    ELSE LET nd == IF A.nd > B.nd THEN A.nd ELSE B.nd
             r == IF A.r > B.r THEN A.r ELSE B.r
             c == IF A.c > B.c THEN A.c ELSE B.c
         IN IF A.st = "opaque" \/ B.st = "opaque" THEN Opaque(nd, r, c)
            ELSE [nd |-> nd, r |-> r, c |-> c, st |-> "num",
                  d |-> Eager([k \in 1..(r * c) |->
                           LET i == ((k - 1) \div c) + 1
                               j == ((k - 1) % c) + 1
                           IN Apply(op,
                                    At(A, IF A.r = 1 THEN 1 ELSE i,
                                          IF A.c = 1 THEN 1 ELSE j),
                                    At(B, IF B.r = 1 THEN 1 ELSE i,
                                          IF B.c = 1 THEN 1 ELSE j))])]

Sub(A, B) == Broadcast("sub", A, B)
Mul(A, B) == Broadcast("mul", A, B)

\* np.divide: a zero divisor gives inf or nan, which no rational represents
np_divide(A, B) ==
    IF ~IsErr(A) /\ B.st = "num" /\ \E k \in 1..Len(B.d) : B.d[k][1] = 0
    THEN LET Z == Broadcast("mul", A, B)
         IN IF IsErr(Z) THEN Z ELSE Opaque(Z.nd, Z.r, Z.c)
    ELSE Broadcast("div", A, B)

\* np.dot / ndarray.dot for arrays of ndim 0, 1 and 2
np_dot(A, B) ==
    IF IsErr(A) THEN A
    ELSE IF IsErr(B) THEN B
    ELSE IF A.nd = 0 \/ B.nd = 0 THEN Mul(A, B)
    ELSE LET ra == IF A.nd = 1 THEN 1 ELSE A.r
             ca == A.c
             rb == IF B.nd = 1 THEN B.c ELSE B.r
             cb == IF B.nd = 1 THEN 1 ELSE B.c
             nd == (A.nd + B.nd) - 2
             r == IF nd = 2 THEN ra ELSE 1
             c == IF nd = 2 THEN cb ELSE ra * cb
         IN IF ca # rb THEN Raised("ValueError")
            ELSE IF A.st = "opaque" \/ B.st = "opaque" THEN Opaque(nd, r, c)
            ELSE [nd |-> nd, r |-> r, c |-> c, st |-> "num",
                  d |-> Eager([k \in 1..(ra * cb) |->
                           LET i == ((k - 1) \div cb) + 1
                               j == ((k - 1) % cb) + 1
                           IN RSum([t \in 1..ca |->
                                      RMul(A.d[(i - 1) * ca + t],
                                           B.d[(t - 1) * cb + j])])])]

Neg(A) == IF A.st = "num" THEN [A EXCEPT !.d = Eager([k \in 1..Len(A.d) |-> RNeg(A.d[k])])]
          ELSE A

\* A - A.min()
ShiftMin(A) == IF A.st = "num" THEN Sub(A, Scalar(RMin(A.d))) ELSE A

\* np.sum of one array: the sum of all its entries, a 0-d value
SumAll(A) ==
    IF IsErr(A) THEN A
    ELSE IF A.st = "opaque" THEN Opaque(0, 1, 1)
    ELSE Scalar(RSum(A.d))

\* the square of np.linalg.norm(A): Frobenius norm of a num array
NormSq(A) == RSum([k \in 1..Len(A.d) |-> RMul(A.d[k], A.d[k])])

\* ------------------------------------------------------------ Python values
\* what a Python name can hold here: an array, or the pair (array, log)
Nd(a) == [kind |-> "ndarray", a |-> a, log |-> <<>>]
Tup(a, l) == [kind |-> "tuple", a |-> a, log |-> l]

\* ------------------------------------------------------------ pure functions
\* np.log(b + 1e-15): real logarithms, not represented
np_log(A) == IF IsErr(A) THEN A ELSE Opaque(A.nd, A.r, A.c)
\* np.exp
np_exp(A) == IF IsErr(A) THEN A ELSE Opaque(A.nd, A.r, A.c)

tensor_square_loss(C1, C2, T) ==
    ShiftMin(Neg(np_dot(np_dot(C1, T), Transpose(C2))))

tensor_kl_loss(C1, C2, T) ==
    ShiftMin(Neg(np_dot(np_dot(C1, T), Transpose(np_log(C2)))))

\* lambdas[s] * np.dot(T[s].T, Cs[s]).dot(T[s]); a tuple has no attribute T
UpdateTerm(lam, Ts, C) ==
    IF Ts.kind = "tuple" THEN Raised("AttributeError")
    ELSE Mul(Scalar(lam), np_dot(np_dot(Transpose(Ts.a), C), Ts.a))

\* np.sum(list of S equally shaped arrays), no axis: the sum of every entry
np_sum(items) ==
    IF \E s \in 1..Len(items) : IsErr(items[s])
    THEN items[CHOOSE s \in 1..Len(items) :
                 IsErr(items[s]) /\ \A t \in 1..(s - 1) : ~IsErr(items[t])]
    ELSE IF \E s \in 1..Len(items) : items[s].st = "opaque" THEN Opaque(0, 1, 1)
    ELSE Scalar(RSum([s \in 1..Len(items) |-> RSum(items[s].d)]))

update_square_loss(p, lambdas, T, Cs) ==
    LET tmpsum == np_sum([s \in 1..Len(T) |-> UpdateTerm(lambdas[s], T[s], Cs[s])])
        ppt == np_dot(p, Transpose(p))
    IN np_divide(tmpsum, ppt)

update_kl_loss(p, lambdas, T, Cs) ==
    LET tmpsum == np_sum([s \in 1..Len(T) |-> UpdateTerm(lambdas[s], T[s], Cs[s])])
        ppt == np_dot(p, Transpose(p))
    IN np_exp(np_divide(tmpsum, ppt))

\* ------------------------------------------------------------ comparisons
RECURSIVE ISqrtFrom(_, _)
ISqrtFrom(m, r) == IF (r + 1) * (r + 1) > m THEN r ELSE ISqrtFrom(m, r + 1)
\* floor of the square root of m >= 0
ISqrt(m) == ISqrtFrom(m, 0)

\* err > stopThr, for e2 the square of err and thr = a/b >= 0:
\* n/d > (a/b)^2  <=>  n > 0 and b > floor(sqrt(floor(a*a*d / n)))
Exceeds(e2, thr) ==
    /\ e2[1] > 0
    /\ thr[2] > ISqrt((thr[1] * thr[1] * e2[2]) \div e2[1])

\* (a loop that tests cpt <= numItermax)
LoopCondOffByOne(e2, thr, k, budget) == Exceeds(e2, thr) /\ k <= budget

\* while (err > stopThr and cpt < numItermax)
LoopCond(e2, thr, k, budget) == Exceeds(e2, thr) /\ k < budget

\* (err initialised above 1)
InitialErrTwo == <<2, 1>>

\* err = 1, lines 277 and 445
InitialErr == One

\* the values np.linalg.norm(A)^2 can take; an array of unrepresented reals
\* can have any norm, nan included (nan > stopThr is false, as for 0)
NormOutcomes(A) ==
    IF A.st = "num" THEN {NormSq(A)} ELSE {Zero, <<4, 1>>}

\* ------------------------------------------------------------ inputs
Null == Scalar(Zero)
NoVal == Nd(Null)

LossKinds == {"square_loss", "kl_loss", "other"}
Forms == {"1d", "col"}

\* stopThr values (0, 1/2 and 1); 1e-5 is the inner threshold of line 454
StopThrs == {Zero, <<1, 2>>, One}
InnerStopThr == <<1, 100000>>

\* the log argument: False, or a dict whose 'err' list holds what it held
LogArgs == {<<FALSE, <<>>>>, <<TRUE, <<One>>>>}

\* numItermax of a gromov_wasserstein call: none, one, or many iterations
NumItermaxes == {0, 1, MaxIter}

\* uniform weights of n points, as a 1-d array (n,) or a column (n, 1)
Unif(n, form) ==
    IF form = "1d" THEN Vec([k \in 1..n |-> Rat(1, n)])
    ELSE Mat(n, 1, [k \in 1..n |-> Rat(1, n)])

\* the distance matrix of n points on a line, |i - j|
Cost(n) ==
    Mat(n, n, [k \in 1..(n * n) |->
                 <<Abs(((k - 1) \div n) - ((k - 1) % n)), 1>>])

\* the entries the solver's couplings are drawn from
SolverVals == {Zero, <<1, 2>>}

\* sinkhorn(a, b, M, reg): some non-negative matrix of the shape of M
sinkhorn(a, b, M) ==
    {Mat(M.r, M.c, [k \in 1..(M.r * M.c) |-> x]) : x \in SolverVals}

\* dist(xalea, xalea) of N random points of the plane: their pairwise
\* squared distances, a symmetric matrix with a zero diagonal
dist(N) ==
    {Mat(N, N, [k \in 1..(N * N) |->
           LET i == ((k - 1) \div N) + 1
               j == ((k - 1) % N) + 1
           IN IF i = j THEN Zero
              ELSE IF Abs(i - j) = N - 1 THEN <<2, 1>> ELSE v]) :
       v \in {One, <<2, 1>>}}

\* C = dist(xalea, xalea); C /= C.max(): for N = 1 the maximum is 0 and 0/0
\* is nan
RandomC(N) == {np_divide(D, Scalar(RMax(D.d))) : D \in dist(N)}

GWInputs ==
    {[loss_fun |-> l, numItermax |-> n, stopThr |-> t, log |-> lg[1],
      log0 |-> lg[2], C1 |-> Cost(ns), C2 |-> Cost(nt), p |-> Unif(ns, f),
      q |-> Unif(nt, f), N |-> 0, Cs |-> <<>>, ps |-> <<>>, lambdas |-> <<>>,
      T |-> <<>>] :
        l \in LossKinds, n \in NumItermaxes, t \in StopThrs, lg \in LogArgs,
        ns \in 1..MaxN, nt \in 1..MaxN, f \in Forms}

\* gromov_wasserstein2 adds nothing to the loop: short solves only
GW2Inputs == {a \in GWInputs : a.numItermax <= 1}

\* S spaces of n points each, sz[s] = n
SpaceSizes == {[s \in 1..S |-> n] : S \in 1..MaxS, n \in 1..MaxN}

BaryInputs ==
    {[loss_fun |-> l, numItermax |-> n, stopThr |-> t, log |-> lg[1],
      log0 |-> lg[2], C1 |-> Null, C2 |-> Null, p |-> Unif(N, f), q |-> Null,
      N |-> N, Cs |-> [s \in DOMAIN sz |-> Cost(sz[s])],
      ps |-> [s \in DOMAIN sz |-> Unif(sz[s], f)],
      lambdas |-> [s \in DOMAIN sz |-> Rat(1, Len(sz))], T |-> <<>>] :
        l \in LossKinds, n \in 0..MaxBaryIter, t \in StopThrs, lg \in LogArgs,
        N \in 1..MaxN, sz \in SpaceSizes, f \in Forms}

\* update_square_loss called on couplings T[s] of shape (sz[s], N)
UpdateInputs ==
    {[loss_fun |-> "square_loss", numItermax |-> 0, stopThr |-> Zero,
      log |-> FALSE, log0 |-> <<>>, C1 |-> Null, C2 |-> Null,
      p |-> Unif(N, f), q |-> Null, N |-> N,
      Cs |-> [s \in DOMAIN sz |-> Cost(sz[s])], ps |-> <<>>,
      lambdas |-> [s \in DOMAIN sz |-> Rat(1, Len(sz))],
      T |-> [s \in DOMAIN sz |->
               Nd(Mat(sz[s], N, [k \in 1..(sz[s] * N) |->
                        IF k = 1 THEN xy[1] ELSE xy[2]]))]] :
        N \in 1..MaxN, sz \in SpaceSizes, f \in Forms,
        xy \in SolverVals \X SolverVals}

\* ------------------------------------------------------------ state
VARIABLES
    fn,       \* the function called
    arg,      \* its arguments
    pc,       \* the control point
    log,      \* log['err'] of the caller's log dict
    gw,       \* arguments of the running gromov_wasserstein activation
    T, cpt, err,          \* locals of gromov_wasserstein
    ret,      \* what the last gromov_wasserstein activation returned
    C, Cprev, b_cpt, b_err, error,   \* locals of gromov_barycenters
    Ts,       \* the list built by line 453, bound to T when complete
    gwargs,   \* history: the arguments of the solves of this outer iteration
    calls,    \* history: sinkhorn invocations of the running activation
    began,    \* history: loop iterations begun, all loops together
    quiet,    \* history: trailing iterations with ||T - Tprev|| <= stopThr
    result    \* how the call ended

vars == <<fn, arg, pc, log, gw, T, cpt, err, ret, C, Cprev, b_cpt, b_err,
          error, Ts, gwargs, calls, began, quiet, result>>

gwvars == <<gw, T, cpt, err, calls, quiet>>
baryvars == <<C, Cprev, b_cpt, b_err, error, Ts, gwargs>>

NoFrame == [C1 |-> Null, C2 |-> Null, p |-> Null, q |-> Null,
            numItermax |-> 0, stopThr |-> Zero]
NoResult == [kind |-> "none", exc |-> "", val |-> NoVal]

Init ==
    /\ \/ fn = "gromov_wasserstein" /\ arg \in GWInputs
       \/ fn = "gromov_wasserstein2" /\ arg \in GW2Inputs
       \/ fn = "gromov_barycenters" /\ arg \in BaryInputs
       \/ fn = "update_square_loss" /\ arg \in UpdateInputs
    /\ pc = "start"
    /\ log = arg.log0
    /\ gw = NoFrame
    /\ T = Null /\ cpt = 0 /\ err = One
    /\ ret = NoVal
    /\ C = Null /\ Cprev = Null /\ b_cpt = 0 /\ b_err = One
    /\ error = <<>> /\ Ts = <<>> /\ gwargs = <<>>
    /\ calls = 0 /\ began = 0 /\ quiet = 0
    /\ result = NoResult

\* an exception nobody catches ends the call
Raise(e) ==
    /\ pc' = "done"
    /\ result' = [kind |-> "raise", exc |-> e, val |-> NoVal]

Return(v) ==
    /\ pc' = "done"
    /\ result' = [kind |-> "return", exc |-> "", val |-> v]

\* ------------------------------------------------------------ gromov_wasserstein
\* (a check every 11th iteration)
IsCheckpointEvery11(k) == k % 11 = 0

\* (a check at iterations 1, 11, 21, ...)
IsCheckpointFromOne(k) == k % 10 = 1

\* if cpt % 10 == 0
IsCheckpoint(k) == k % 10 = 0

\* the call of gromov_wasserstein by the caller or by gromov_wasserstein2
GWCall ==
    /\ pc = "start"
    /\ fn \in {"gromov_wasserstein", "gromov_wasserstein2"}
    /\ gw' = [C1 |-> arg.C1, C2 |-> arg.C2, p |-> arg.p, q |-> arg.q,
              numItermax |-> arg.numItermax, stopThr |-> arg.stopThr]
    /\ pc' = "gw_start"
    /\ UNCHANGED <<fn, arg, log, T, cpt, err, ret, baryvars, calls, began,
                   quiet, result>>

\* lines 271-277
InitialCoupling(p, q) == np_dot(p, Transpose(q))

GWInit ==
    /\ pc = "gw_start"
    /\ LET T0 == InitialCoupling(gw.p, gw.q)
       IN IF IsErr(T0)
          THEN /\ Raise(T0.st)
               /\ UNCHANGED <<T, cpt, err, calls, quiet>>
          ELSE /\ T' = T0
               /\ cpt' = 0
               /\ err' = InitialErr
               /\ calls' = 0
               /\ quiet' = 0
               /\ pc' = "gw_loop"
               /\ UNCHANGED result
    /\ UNCHANGED <<fn, arg, log, gw, ret, baryvars, began>>

\* the cost of lines 283-287; tens stays unbound for any other loss_fun
Tens(loss_fun, C1, C2, T_) ==
    IF loss_fun = "square_loss" THEN tensor_square_loss(C1, C2, T_)
    ELSE IF loss_fun = "kl_loss" THEN tensor_kl_loss(C1, C2, T_)
    ELSE Raised("UnboundLocalError")

\* one iteration of the loop, lines 279-304
GWIter ==
    /\ pc = "gw_loop"
    /\ LoopCond(err, gw.stopThr, cpt, gw.numItermax)
    /\ began' = began + 1
    /\ LET tens == Tens(arg.loss_fun, gw.C1, gw.C2, T)
       IN IF IsErr(tens)
          THEN /\ Raise(tens.st)
               /\ UNCHANGED <<T, cpt, err, log, calls, quiet>>
          ELSE \E Tn \in sinkhorn(gw.p, gw.q, tens) :
                 LET diff == Sub(Tn, T)
                 IN IF IsErr(diff)
                    THEN /\ calls' = calls + 1
                         /\ IF IsCheckpoint(cpt)
                            THEN /\ Raise(diff.st)
                                 /\ UNCHANGED <<T, cpt, err, log, quiet>>
                            ELSE /\ T' = Tn
                                 /\ cpt' = cpt + 1
                                 /\ UNCHANGED <<err, log, quiet, pc, result>>
                    ELSE /\ T' = Tn
                         /\ calls' = calls + 1
                         /\ quiet' = IF Exceeds(NormSq(diff), gw.stopThr)
                                     THEN 0 ELSE quiet + 1
                         /\ IF IsCheckpoint(cpt)
                            THEN /\ err' = NormSq(diff)
                                 /\ log' = IF arg.log THEN Append(log, err')
                                           ELSE log
                            ELSE UNCHANGED <<err, log>>
                         /\ cpt' = cpt + 1
                         /\ UNCHANGED <<pc, result>>
    /\ UNCHANGED <<fn, arg, gw, ret, baryvars>>

\* the loop is left: lines 306-309
GWReturn ==
    /\ pc = "gw_loop"
    /\ ~LoopCond(err, gw.stopThr, cpt, gw.numItermax)
    /\ ret' = IF arg.log THEN Tup(T, log) ELSE Nd(T)
    /\ pc' = "gw_returned"
    /\ UNCHANGED <<fn, arg, log, gwvars, baryvars, began, result>>

\* the caller of gromov_wasserstein gets its result
GWDone ==
    /\ pc = "gw_returned"
    /\ fn = "gromov_wasserstein"
    /\ Return(ret)
    /\ UNCHANGED <<fn, arg, log, gwvars, ret, baryvars, began>>

\* ------------------------------------------------------------ gromov_wasserstein2
\* lines 365-381, after the solve: gw, logv = ... ; gw_dist
GWDist(loss_fun, C1, C2, g) ==
    IF loss_fun = "square_loss"
    THEN SumAll(Mul(g, tensor_square_loss(C1, C2, g)))
    ELSE IF loss_fun = "kl_loss"
    THEN SumAll(Mul(g, tensor_kl_loss(C1, C2, g)))
    ELSE Raised("UnboundLocalError")

GW2Finish ==
    /\ pc = "gw_returned"
    /\ fn = "gromov_wasserstein2"
    /\ LET gw_dist == GWDist(arg.loss_fun, arg.C1, arg.C2, ret.a)
       IN IF IsErr(gw_dist) THEN Raise(gw_dist.st)
          ELSE Return(IF arg.log THEN Tup(gw_dist, ret.log) ELSE Nd(gw_dist))
    /\ UNCHANGED <<fn, arg, log, gwvars, ret, baryvars, began>>

\* ------------------------------------------------------------ gromov_barycenters
\* lines 432-447
BaryInit ==
    /\ pc = "start"
    /\ fn = "gromov_barycenters"
    /\ Ts' = [s \in 1..Len(arg.Cs) |-> NoVal]
    /\ C' \in RandomC(arg.N)
    /\ b_cpt' = 0
    /\ b_err' = InitialErr
    /\ error' = <<>>
    /\ pc' = "b_loop"
    /\ UNCHANGED <<fn, arg, log, gwvars, ret, Cprev, gwargs, began, result>>

\* the loop condition holds: Cprev = C, and the comprehension starts
BaryIterBegin ==
    /\ pc = "b_loop"
    /\ LoopCond(b_err, arg.stopThr, b_cpt, arg.numItermax)
    /\ Cprev' = C
    /\ Ts' = <<>>      \* the new list; T keeps the old one, which is never read
    /\ gwargs' = <<>>
    /\ began' = began + 1
    /\ pc' = "b_call"
    /\ UNCHANGED <<fn, arg, log, gwvars, ret, C, b_cpt, b_err, error, result>>

\* (the outer stopThr handed to the inner solves)
BaryCallArgsOuterThr(s) ==
    [C1 |-> arg.Cs[s], C2 |-> C, p |-> arg.ps[s], q |-> arg.p,
     numItermax |-> arg.numItermax, stopThr |-> arg.stopThr]

\* the arguments of the solve of space s, lines 453-454
BaryCallArgs(s) ==
    [C1 |-> arg.Cs[s], C2 |-> C, p |-> arg.ps[s], q |-> arg.p,
     numItermax |-> arg.numItermax, stopThr |-> InnerStopThr]

BarySolve ==
    /\ pc = "b_call"
    /\ gw' = BaryCallArgs(Len(Ts) + 1)
    /\ gwargs' = Append(gwargs, gw')
    /\ pc' = "gw_start"
    /\ UNCHANGED <<fn, arg, log, T, cpt, err, ret, C, Cprev, b_cpt, b_err,
                   error, Ts, calls, began, quiet, result>>

\* a solve has returned: its value is the next element of the list, and
\* the activation with its locals is gone
BaryCollect ==
    /\ pc = "gw_returned"
    /\ fn = "gromov_barycenters"
    /\ Ts' = Append(Ts, ret)
    /\ pc' = IF Len(Ts') = Len(arg.Cs) THEN "b_update" ELSE "b_call"
    /\ ret' = NoVal
    /\ gw' = NoFrame
    /\ T' = Null /\ cpt' = 0 /\ err' = One /\ calls' = 0 /\ quiet' = 0
    /\ UNCHANGED <<fn, arg, log, C, Cprev, b_cpt, b_err, error, gwargs, began,
                   result>>

\* lines 456-460; C keeps its value for any other loss_fun
Update(loss_fun, p, lambdas, T_, Cs, C_) ==
    IF loss_fun = "square_loss" THEN update_square_loss(p, lambdas, T_, Cs)
    ELSE IF loss_fun = "kl_loss" THEN update_kl_loss(p, lambdas, T_, Cs)
    ELSE C_

\* the list is bound to T, then lines 456-476
BaryUpdate ==
    /\ pc = "b_update"
    /\ LET Cn == Update(arg.loss_fun, arg.p, arg.lambdas, Ts, arg.Cs, C)
           diff == Sub(Cn, Cprev)
       IN IF IsErr(Cn) \/ (IsCheckpoint(b_cpt) /\ IsErr(diff))
          THEN /\ Raise(IF IsErr(Cn) THEN Cn.st ELSE diff.st)
               /\ UNCHANGED <<C, b_cpt, b_err, error, log>>
          ELSE /\ C' = Cn
               /\ IF IsCheckpoint(b_cpt)
                  THEN \E e \in NormOutcomes(diff) :
                         /\ b_err' = e
                         /\ error' = Append(error, e)
                         /\ log' = IF arg.log THEN Append(log, e) ELSE log
                  ELSE UNCHANGED <<b_err, error, log>>
               /\ b_cpt' = b_cpt + 1
               /\ pc' = "b_loop"
               /\ UNCHANGED result
    /\ UNCHANGED <<fn, arg, gwvars, ret, Cprev, Ts, gwargs, began>>

\* line 478
BaryReturn ==
    /\ pc = "b_loop"
    /\ ~LoopCond(b_err, arg.stopThr, b_cpt, arg.numItermax)
    /\ Return(Nd(C))
    /\ UNCHANGED <<fn, arg, log, gwvars, ret, baryvars, began>>

\* ------------------------------------------------------------ update_square_loss
UpdateCall ==
    /\ pc = "start"
    /\ fn = "update_square_loss"
    /\ LET v == update_square_loss(arg.p, arg.lambdas, arg.T, arg.Cs)
       IN IF IsErr(v) THEN Raise(v.st) ELSE Return(Nd(v))
    /\ UNCHANGED <<fn, arg, log, gwvars, ret, baryvars, began>>

\* ------------------------------------------------------------ specification
Next ==
    \/ GWCall
    \/ GWInit
    \/ GWIter
    \/ GWReturn
    \/ GWDone
    \/ GW2Finish
    \/ BaryInit
    \/ BaryIterBegin
    \/ BarySolve
    \/ BaryCollect
    \/ BaryUpdate
    \/ BaryReturn
    \/ UpdateCall

Spec == Init /\ [][Next]_vars

\* ------------------------------------------------------------ properties
Done == pc = "done"
Returned == pc = "done" /\ result.kind = "return"
ValidLoss == arg.loss_fun \in {"square_loss", "kl_loss"}
NPoints(v) == Len(v.d)
InSolve == pc \in {"gw_start", "gw_loop", "gw_returned"}

\* entry (i, j) of A, a 0-d or 1-d array read as numpy broadcasts it
EntryOf(A, i, j) ==
    At(A, IF A.r = 1 THEN 1 ELSE i, IF A.c = 1 THEN 1 ELSE j)

\* A[i][j] = p[i] * q[j] for every i, j
IsOuterProduct(A, p, q) ==
    /\ A.st = "num"
    /\ A.r \in {1, NPoints(p)}
    /\ A.c \in {1, NPoints(q)}
    /\ \A i \in 1..NPoints(p), j \in 1..NPoints(q) :
          EntryOf(A, i, j) = RMul(p.d[i], q.d[j])

\* entry (i, j) of sum_s lambdas[s] * T[s]^t Cs[s] T[s], over p[i] * p[j]
MatrixWiseUpdate(p, lambdas, T_, Cs, i, j) ==
    RDiv(RSum([s \in 1..Len(T_) |->
                 At(UpdateTerm(lambdas[s], T_[s], Cs[s]), i, j)]),
         RMul(p.d[i], p.d[j]))

\* C1: with a loss kind other than 'square_loss' and 'kl_loss', each of
\* gromov_wasserstein, gromov_wasserstein2 and gromov_barycenters ends in an
\* error raised before the first loop iteration begins, for every numItermax
\* and stopThr; it never returns normally.
C1_FailFast ==
    ( /\ fn \in {"gromov_wasserstein", "gromov_wasserstein2",
                 "gromov_barycenters"}
      /\ ~ValidLoss
      /\ Done )
    => (result.kind = "raise" /\ began = 0)

\* C2: gromov_wasserstein with numItermax = 0 runs no iteration, never calls
\* the solver and returns T0 with T0[i][j] = p[i] * q[j].
C2_ZeroBudgetOuterProduct ==
    (fn = "gromov_wasserstein" /\ arg.numItermax = 0 /\ Done)
    => ( /\ result.kind = "return"
         /\ began = 0
         /\ calls = 0
         /\ IsOuterProduct(result.val.a, arg.p, arg.q) )

\* C3: update_square_loss returns, at every (i, j), entry (i, j) of the
\* matrix-wise sum over s of lambdas[s] * T[s]^t Cs[s] T[s], divided by
\* p[i] * p[j].
C3_MatrixWiseSum ==
    (fn = "update_square_loss" /\ Done)
    => ( /\ result.kind = "return"
         /\ result.val.a.st = "num"
         /\ \A i \in 1..arg.N, j \in 1..arg.N :
               EntryOf(result.val.a, i, j)
                 = MatrixWiseUpdate(arg.p, arg.lambdas, arg.T, arg.Cs, i, j) )

\* C4: gromov_barycenters with a log and a valid loss kind hands the update
\* rule the couplings themselves as T[s], as without a log, and completes
\* normally once the S solves of an iteration have returned.
C4_LoggedBarycenter ==
    (fn = "gromov_barycenters" /\ arg.log /\ ValidLoss)
    => ( /\ pc = "b_update" => \A s \in 1..Len(Ts) : Ts[s].kind = "ndarray"
         /\ (Done /\ began > 0 /\ Len(Ts) = Len(arg.Cs))
              => result.kind = "return" )

\* C5: with a valid loss kind a gromov_wasserstein solve ends: every step
\* taken at the loop either leaves it or completes one iteration, which calls
\* the solver once and raises cpt by one, never past numItermax; when the
\* loop is left, err <= stopThr or cpt >= numItermax; once the loop is
\* entered the call raises nothing and returns the last T, converged or not.
C5_Safe ==
    ValidLoss =>
      ( /\ pc \in {"gw_loop", "gw_returned"}
             => (calls = cpt /\ calls <= gw.numItermax)
        /\ pc = "gw_returned"
             => ( /\ ~Exceeds(err, gw.stopThr) \/ cpt >= gw.numItermax
                  /\ ret.a = T )
        /\ (fn = "gromov_wasserstein" /\ Done /\ began > 0)
             => (result.kind = "return" /\ result.val.a = T) )

C5_BoundedSolve ==
    /\ [](C5_Safe)
    /\ [][ (pc = "gw_loop" /\ ValidLoss)
             => \/ pc' = "gw_returned"
                \/ /\ pc' = "gw_loop"
                   /\ cpt' = cpt + 1
                   /\ calls' = calls + 1
                   /\ cpt' <= gw.numItermax ]_vars

C5_Witness ==
    /\ fn = "gromov_wasserstein" /\ ValidLoss /\ Returned
    /\ cpt = arg.numItermax /\ cpt > 1 /\ calls = cpt
    /\ Exceeds(err, arg.stopThr)

\* C6: with a valid loss kind, gromov_wasserstein returns a matrix of shape
\* (len(p), len(q)) with non-negative entries, for 1-d and column weight
\* vectors of any lengths and every numItermax.
C6_ShapeNonNegative ==
    (fn = "gromov_wasserstein" /\ ValidLoss /\ Done)
    => ( /\ result.kind = "return"
         /\ result.val.a.st = "num"
         /\ result.val.a.nd = 2
         /\ result.val.a.r = NPoints(arg.p)
         /\ result.val.a.c = NPoints(arg.q)
         /\ \A k \in 1..Len(result.val.a.d) : result.val.a.d[k][1] >= 0 )

\* C7: an iteration of the gromov_wasserstein loop sets err to ||T - Tprev||
\* when cpt mod 10 = 0 and leaves it unchanged otherwise; and the loop runs
\* at most 10 iterations in a row whose step ||T - Tprev|| is <= stopThr
\* (the first of them and at most 9 more).
C7_SparseCheck ==
    /\ [][ (pc = "gw_loop" /\ pc' = "gw_loop" /\ cpt' = cpt + 1)
             => IF cpt % 10 = 0 THEN err' = NormSq(Sub(T', T))
                ELSE err' = err ]_vars
    /\ [](quiet <= 10)

C7_Witness == pc = "gw_returned" /\ cpt = 11 /\ quiet = 10

\* C8: with logging enabled, after k iterations of gromov_wasserstein the
\* log holds what it held before followed by ceil(k/10) non-negative values,
\* each appended by an iteration with cpt mod 10 = 0 and equal to its err;
\* no other step changes the log, and the call returns (T, log).
C8_LogInv ==
    (fn = "gromov_wasserstein" /\ arg.log /\ pc \in {"gw_loop", "gw_returned", "done"})
    => ( /\ Len(log) = Len(arg.log0) + ((cpt + 9) \div 10)
         /\ SubSeq(log, 1, Len(arg.log0)) = arg.log0
         /\ \A k \in 1..Len(log) : log[k][1] >= 0
         /\ Returned => result.val = Tup(T, log) )

C8_AppendOnly ==
    /\ [](C8_LogInv)
    /\ [][ (fn = "gromov_wasserstein" /\ arg.log)
             => IF pc = "gw_loop" /\ pc' = "gw_loop" /\ cpt % 10 = 0
                THEN log' = Append(log, NormSq(Sub(T', T)))
                ELSE log' = log ]_vars

C8_Witness ==
    /\ fn = "gromov_wasserstein" /\ arg.log /\ Returned
    /\ cpt = 11 /\ Len(arg.log0) = 1 /\ Len(log) = 3

\* C9: in an outer iteration of gromov_barycenters (no log) the solves run
\* one per space, in order, the solve of space s with (Cs[s], C, ps[s], p),
\* budget numItermax and threshold 1e-5, where C is the value the iteration
\* started with; C is not replaced before all S solves have returned.
C9_FrozenSnapshot ==
    ( /\ fn = "gromov_barycenters"
      /\ ~arg.log
      /\ (InSolve \/ pc \in {"b_call", "b_update"}) )
    => ( /\ C = Cprev
         /\ Len(gwargs) = Len(Ts) + (IF InSolve THEN 1 ELSE 0)
         /\ Len(gwargs) <= Len(arg.Cs)
         /\ \A s \in 1..Len(gwargs) :
               gwargs[s] = [C1 |-> arg.Cs[s], C2 |-> Cprev, p |-> arg.ps[s],
                            q |-> arg.p, numItermax |-> arg.numItermax,
                            stopThr |-> <<1, 100000>>]
         /\ InSolve => gw = gwargs[Len(gwargs)]
         /\ pc = "b_update" => Len(Ts) = Len(arg.Cs) )

C9_Witness ==
    /\ fn = "gromov_barycenters" /\ ~arg.log /\ pc = "b_update"
    /\ b_cpt = 1 /\ Len(Ts) = 2 /\ C \notin RandomC(arg.N)

\* C10: with stopThr >= 1, gromov_wasserstein and gromov_barycenters begin
\* no iteration for any numItermax: no solver call and no solve is made, and
\* what is returned is the initial coupling, respectively the initial C.
C10_NoIteration ==
    ( /\ fn \in {"gromov_wasserstein", "gromov_barycenters"}
      /\ RLeq(One, arg.stopThr) )
    => ( /\ began = 0
         /\ calls = 0
         /\ gwargs = <<>>
         /\ Returned =>
              IF fn = "gromov_wasserstein"
              THEN result.val.a = InitialCoupling(arg.p, arg.q)
              ELSE result.val.a = C /\ C \in RandomC(arg.N) )

C10_Witness ==
    /\ fn = "gromov_wasserstein" /\ RLeq(One, arg.stopThr)
    /\ arg.numItermax > 1 /\ Returned

====
